---- MODULE Spec2Model ----
(***************************************************************************)
(* Model of createGetCentraWebhookEvents, the Centra webhook ingestor of   *)
(* packages/utils (src/packages/utils/src/toggle.test.ts, lines 28-190).   *)
(*                                                                         *)
(* JavaScript values are tagged records.  A string is a sequence of        *)
(* tokens: the separators "," and "=" are tokens of their own, every other *)
(* token is a piece of text that holds no separator.                       *)
(***************************************************************************)
EXTENDS FiniteSets, Integers, Sequences, TLC

\* ------------------------------------------------------------------------
\* Bounds of the model
\* ------------------------------------------------------------------------

\* Longest payload string, in tokens.
MaxPayloadLen == 2

\* Most comma-separated entries of a signature header.
MaxEntries == 2

\* Invocations that overlap in SpecConc.
NumInv == 2

\* ------------------------------------------------------------------------
\* JavaScript values
\* ------------------------------------------------------------------------

Undefined == [type |-> "undefined"]

Null == [type |-> "null"]

Str(chars) == [type |-> "string", chars |-> chars]

Num(n) == [type |-> "number", value |-> n]

Obj(props) == [type |-> "object", props |-> props]

\* ToBoolean, as applied by `if (x)`, `!x` and `x && ...`.
Truthy(v) ==
  CASE v.type = "string" -> v.chars # <<>>
    [] v.type = "number" -> v.value # 0
    [] v.type = "object" -> TRUE
    [] OTHER -> FALSE

\* The decimal digits of a number whose digits are all 1.
RECURSIVE Digits(_)
Digits(n) == IF n < 10 THEN <<"1">> ELSE Digits(n \div 10) \o <<"1">>

\* ToString, as applied by a template literal and by the string built-ins.
ToStringJS(v) ==
  CASE v.type = "string" -> v.chars
    [] v.type = "undefined" -> <<"undefined">>
    [] v.type = "null" -> <<"null">>
    [] v.type = "number" -> Digits(v.value)
    [] OTHER -> <<"[object Object]">>

\* String.prototype.split with a one-token separator: always at least one
\* piece, an empty string gives one empty piece.
RECURSIVE Split(_, _)
Split(s, sep) ==
  IF \A i \in 1..Len(s) : s[i] # sep
  THEN <<s>>
  ELSE LET k == CHOOSE i \in 1..Len(s) : s[i] = sep /\ \A j \in 1..(i - 1) : s[j] # sep
       IN  <<SubSeq(s, 1, k - 1)>> \o Split(SubSeq(s, k + 1, Len(s)), sep)

\* A surrogate code unit without its pair.
LoneSurrogate == "\\uD800"

\* encodeURIComponent throws a URIError on a lone surrogate.
EncodeURIComponentThrows(text) == \E i \in 1..Len(text) : text[i] = LoneSurrogate

\* encodeURIComponent: an unreserved character stays, a space becomes %20.
EncodeURIComponent(text) ==
  [i \in 1..Len(text) |-> IF text[i] = " " THEN "%20" ELSE text[i]]

\* JSON whitespace around a JSON text is skipped.
RECURSIVE TrimLeft(_)
TrimLeft(s) == IF s # <<>> /\ Head(s) = " " THEN TrimLeft(Tail(s)) ELSE s

RECURSIVE TrimRight(_)
TrimRight(s) ==
  IF s # <<>> /\ s[Len(s)] = " " THEN TrimRight(SubSeq(s, 1, Len(s) - 1)) ELSE s

RECURSIVE NumberOf(_)
NumberOf(digits) ==
  IF digits = <<>> THEN 0 ELSE 10 * NumberOf(SubSeq(digits, 1, Len(digits) - 1)) + 1

\* JSON.parse throws a SyntaxError on a text that is no JSON value.  Over the
\* payload alphabet the JSON values are the numbers written with the digit 1,
\* with whitespace around them.
JSONParseThrows(text) ==
  LET core == TrimLeft(TrimRight(text))
  IN  core = <<>> \/ \E i \in 1..Len(core) : core[i] # "1"

JSONParse(text) == Num(NumberOf(TrimLeft(TrimRight(text))))

\* ------------------------------------------------------------------------
\* The helpers of the ingestor
\* ------------------------------------------------------------------------

\* crypto.createHmac('sha256', secret).update(dataString).digest('hex'): the
\* digest is one token, and two digests are equal only for the same key and
\* the same data (a keyed hash without collisions).
sign(secret, dataString) == ToString(<<"hmac-sha256", secret, dataString>>)

\* acc[key], undefined for a key the object does not have.
Get(acc, key) == IF key \in DOMAIN acc THEN acc[key] ELSE Undefined

\* { ...acc, [key]: value }
Put(acc, key, value) ==
  [k \in (DOMAIN acc) \cup {key} |-> IF k = key THEN value ELSE acc[k]]

\* ReducePair with `{ [key]: value }`, the pairs before it forgotten.
ReducePairNoSpread(acc, pair) ==
  LET pieces == Split(pair, "=")
      key == pieces[1]
      value == IF Len(pieces) >= 2 THEN Str(pieces[2]) ELSE Undefined
  IN  IF key = <<>> THEN acc ELSE Put(<<>>, key, value)

\* The reducer of parseNamedParametersString: `pair.split('=')` cuts at every
\* "=", key and value are its first two pieces, a pair with an empty key is
\* skipped.
ReducePair(acc, pair) ==
  LET pieces == Split(pair, "=")
      key == pieces[1]
      value == IF Len(pieces) >= 2 THEN Str(pieces[2]) ELSE Undefined
  IN  IF key = <<>> THEN acc ELSE Put(acc, key, value)

RECURSIVE Reduce(_, _)
Reduce(pairs, acc) ==
  IF pairs = <<>> THEN acc ELSE Reduce(Tail(pairs), ReducePair(acc, Head(pairs)))

parseNamedParametersString(input) == Reduce(Split(input, ","), <<>>)

\* isObject of @noaignite/utils.
isObject(value) == value.type = "object"

\* parseRawBody without the `typeof rawBody.payload === 'string'` test.
parseRawBodyAnyPayload(rawBody) ==
  IF /\ Truthy(rawBody)
     /\ isObject(rawBody)
     /\ "payload" \in DOMAIN rawBody.props
  THEN rawBody
  ELSE Null

parseRawBody(rawBody) ==
  IF /\ Truthy(rawBody)
     /\ isObject(rawBody)
     /\ "payload" \in DOMAIN rawBody.props
     /\ rawBody.props.payload.type = "string"
  THEN rawBody
  ELSE Null

\* ------------------------------------------------------------------------
\* Results
\* ------------------------------------------------------------------------

InvalidRequestMethod == <<[message |-> "Invalid request method"]>>

InvalidRequestBody == <<[message |-> "Invalid request body"]>>

NoSignature == <<[message |-> "No signature"]>>

InvalidSignature == <<[message |-> "Invalid signature"]>>

\* How the asynchronous function settles: its promise is fulfilled with a
\* result or rejected with what was thrown; getHeader counts the calls of the
\* adapter's getHeader, logged holds the lines written with console.error.
Returned(result, getHeaderCalls, logged) ==
  [pc |-> "returned", result |-> result, getHeader |-> getHeaderCalls, logged |-> logged]

Thrown(error, getHeaderCalls) ==
  [pc |-> "thrown", result |-> <<[thrown |-> error]>>, getHeader |-> getHeaderCalls,
   logged |-> <<>>]

\* ------------------------------------------------------------------------
\* The ingestor
\* ------------------------------------------------------------------------

\* MethodRejected with `!isRequestMethodPost`, the predicate not called.
MethodNeverRejected(hasIsRequestMethodPost, request) == FALSE

\* `isRequestMethodPost && !isRequestMethodPost(request)`
MethodRejected(hasIsRequestMethodPost, request) ==
  hasIsRequestMethodPost /\ ~request.isPost

\* `${parameters.t}.payload=${encodeURIComponent(body.payload)}`
SignedString(parameters, payload) ==
  ToStringJS(Get(parameters, <<"t">>)) \o <<".payload=">>
    \o EncodeURIComponent(ToStringJS(payload))

\* SignatureMismatch that compares only a v1 the header carries.
SignatureMismatchWhenPresent(secret, parameters, payload) ==
  /\ Get(parameters, <<"v1">>) # Undefined
  /\ Str(<<sign(ToStringJS(secret), SignedString(parameters, payload))>>)
       # Get(parameters, <<"v1">>)

\* sign(secret, ...) !== parameters.v1
SignatureMismatch(secret, parameters, payload) ==
  Str(<<sign(ToStringJS(secret), SignedString(parameters, payload))>>)
    # Get(parameters, <<"v1">>)

\* Decode with null as the no-error marker.
DecodeNull(body, getHeaderCalls) ==
  LET text == ToStringJS(body.props.payload)
  IN  IF JSONParseThrows(text)
      THEN Thrown("SyntaxError", getHeaderCalls)
      ELSE Returned(<<Null, JSONParse(text)>>, getHeaderCalls, <<>>)

\* JSON.parse(body.payload), then the data result.
Decode(body, getHeaderCalls) ==
  LET text == ToStringJS(body.props.payload)
  IN  IF JSONParseThrows(text)
      THEN Thrown("SyntaxError", getHeaderCalls)
      ELSE Returned(<<Undefined, JSONParse(text)>>, getHeaderCalls, <<>>)

\* VerifySignature without `if (!signature)`, a missing header parsed as ''.
VerifySignatureNoPresenceCheck(secret, request, body) ==
  LET signature == request.signature
  IN  IF signature.type = "throw"
      THEN Thrown(signature.error, 1)
      ELSE IF EncodeURIComponentThrows(ToStringJS(body.props.payload))
      THEN Thrown("URIError", 1)
      ELSE IF SignatureMismatch(secret,
                                IF Truthy(signature)
                                THEN parseNamedParametersString(signature.chars)
                                ELSE <<>>,
                                body.props.payload)
      THEN Returned(InvalidSignature, 1, <<"Invalid signature">>)
      ELSE Decode(body, 1)

\* VerifySignature that writes its diagnostic line for a missing header too.
VerifySignatureLogsMissing(secret, request, body) ==
  LET signature == request.signature
  IN  IF signature.type = "throw"
      THEN Thrown(signature.error, 1)
      ELSE IF ~Truthy(signature)
      THEN Returned(NoSignature, 1, <<"Invalid signature">>)
      ELSE IF EncodeURIComponentThrows(ToStringJS(body.props.payload))
      THEN Thrown("URIError", 1)
      ELSE IF SignatureMismatch(secret, parseNamedParametersString(signature.chars),
                                body.props.payload)
      THEN Returned(InvalidSignature, 1, <<"Invalid signature">>)
      ELSE Decode(body, 1)

\* The `if (secret) { ... }` block, entered with a truthy secret.
VerifySignature(secret, request, body) ==
  LET signature == request.signature
  IN  IF signature.type = "throw"
      THEN Thrown(signature.error, 1)
      ELSE IF ~Truthy(signature)
      THEN Returned(NoSignature, 1, <<>>)
      ELSE IF EncodeURIComponentThrows(ToStringJS(body.props.payload))
      THEN Thrown("URIError", 1)
      ELSE IF SignatureMismatch(secret, parseNamedParametersString(signature.chars),
                                body.props.payload)
      THEN Returned(InvalidSignature, 1, <<"Invalid signature">>)
      ELSE Decode(body, 1)

\* AfterRawBody that reads the signature header before it validates the body.
AfterRawBodyHeaderFirst(secret, request) ==
  IF request.rawBody.type = "reject"
  THEN Thrown(request.rawBody.error, 0)
  ELSE IF Truthy(secret) /\ request.signature.type # "throw" /\ ~Truthy(request.signature)
  THEN Returned(NoSignature, 1, <<>>)
  ELSE LET body == parseRawBody(request.rawBody)
       IN  IF ~Truthy(body)
           THEN Returned(InvalidRequestBody, 0, <<>>)
           ELSE IF Truthy(secret)
           THEN VerifySignature(secret, request, body)
           ELSE Decode(body, 0)

\* The function from the resumption after `await getRawBody(request)` to its
\* return.
AfterRawBody(secret, request) ==
  IF request.rawBody.type = "reject"
  THEN Thrown(request.rawBody.error, 0)
  ELSE LET body == parseRawBody(request.rawBody)
       IN  IF ~Truthy(body)
           THEN Returned(InvalidRequestBody, 0, <<>>)
           ELSE IF Truthy(secret)
           THEN VerifySignature(secret, request, body)
           ELSE Decode(body, 0)

\* ------------------------------------------------------------------------
\* Configurations and requests
\* ------------------------------------------------------------------------

\* The secret the sender signs with, and another one.
Key == <<"k1">>

OtherKey == <<"k2">>

Secrets == {Undefined, Str(<<>>), Str(Key)}

Configs == [secret : Secrets, hasIsRequestMethodPost : BOOLEAN]

PayloadChars == {"1", " "}

\* The payload strings: digits and spaces, and one string that is no
\* well-formed UTF-16.
Payloads == UNION {[1..n -> PayloadChars] : n \in 0..MaxPayloadLen} \cup {<<LoneSurrogate>>}

\* What getRawBody gives: a value, or a rejected promise (request.formData()
\* of a body that is no form).
RawBodyRejects == [type |-> "reject", error |-> "TypeError"]

RawBodies ==
  {Undefined, Str(<<"1">>), Obj([other |-> Str(<<"1">>)]), Obj([payload |-> Num(1)]),
   RawBodyRejects}
    \cup {Obj([payload |-> Str(p)]) : p \in Payloads}

\* The payload string of a raw body, "1" for a body without one.
PayloadIn(rawBody) ==
  IF /\ rawBody.type = "object"
     /\ "payload" \in DOMAIN rawBody.props
     /\ rawBody.props.payload.type = "string"
  THEN rawBody.props.payload.chars
  ELSE <<"1">>

\* What a sender holding `key` signs for timestamp `t` and `payload`.
DigestFor(key, t, payload) == sign(key, SignedString([k \in {<<"t">>} |-> t], Str(payload)))

\* The digests a header carries: the right one, one made with another key,
\* one made without a timestamp, and the right one of the payload "1".
Digests(payload) ==
  {DigestFor(Key, Str(<<"7">>), payload), DigestFor(OtherKey, Str(<<"7">>), payload),
   sign(Key, SignedString(<<>>, Str(payload))), DigestFor(Key, Str(<<"7">>), <<"1">>)}

\* The entries between the commas of a header.
Entries(payload) ==
  {<<>>, <<"t">>, <<"t", "=", "7">>, <<"t", "=", "7", "=", "7">>, <<"x", "=", "7">>,
   <<"v1", "=", DigestFor(Key, Str(<<"7">>), payload), "=", "7">>}
    \cup {<<"v1", "=", d>> : d \in Digests(payload)}

RECURSIVE Join(_)
Join(entries) ==
  IF Len(entries) = 1 THEN entries[1] ELSE entries[1] \o <<",">> \o Join(Tail(entries))

Headers(payload) ==
  {Join(es) : es \in UNION {[1..n -> Entries(payload)] : n \in 1..MaxEntries}}

\* What getHeader gives: no value (undefined of a record of headers, null of
\* Headers.get), a string, or the error of nextPagesRouterAdapter for a
\* header sent several times.
HeaderThrows == [type |-> "throw", error |-> "Multiple headers with same key passed."]

Signatures(payload) == {Undefined, Null, HeaderThrows} \cup {Str(h) : h \in Headers(payload)}

Requests ==
  UNION {[isPost : BOOLEAN, signature : Signatures(PayloadIn(b)), rawBody : {b}] :
           b \in RawBodies}

\* ------------------------------------------------------------------------
\* State
\* ------------------------------------------------------------------------

VARIABLES
  config,   \* the configuration createGetCentraWebhookEvents was given
  pc,       \* per invocation: "idle", "awaitRawBody", "returned", "thrown"
  request,  \* per invocation: the request it was called with
  result,   \* per invocation: what its promise settled with
  calls,    \* per invocation: how often each adapter function was called
  console,  \* the lines written with console.error, with the invocation
  \* toggle
  tArray,   \* the array toggle is given
  tValue,   \* the value toggle is given
  tOut,     \* what toggle returned
  tPc,      \* "call" before the call, "done" after it
  \* CentraProvider and useCentraReceipt
  cProps,     \* the props CentraProvider was given
  headers,    \* apiClient.headers, the headers of the shared ApiClient
  cookie,     \* the cookie named tokenName
  selection,  \* the selection state of the provider
  renderDue,  \* a render of the provider is scheduled
  effectDue,  \* the effect that calls init is scheduled
  inFlight,   \* the API calls that have not settled
  widget,     \* window.CentraCheckout and the calls it has received
  resetDone,  \* the token of the response that ended the init of resetSelection
  receipt,    \* the request useCentraReceipt made
  \* MediaLoader
  mProps,        \* the props MediaLoader was given
  shouldRender,  \* state shouldRender
  revealState,   \* the state useControlled keeps for shouldReveal
  loaded,        \* state loaded
  mediaRef,      \* mediaRef.current
  registered,    \* the nodes mediaLoaded is waiting for
  onLoadedLog,   \* the calls of onLoaded, with mediaRef.current at the call
  boundsEntered  \* the render bounds have been reported in view

ivars == <<config, pc, request, result, calls, console>>

tvars == <<tArray, tValue, tOut, tPc>>

cvars == <<cProps, headers, cookie, selection, renderDue, effectDue, inFlight, widget,
           resetDone, receipt>>

mvars == <<mProps, shouldRender, revealState, loaded, mediaRef, registered, onLoadedLog,
           boundsEntered>>

vars == <<ivars, tvars, cvars, mvars>>

\* toggle has not been called.
ToggleIdle ==
  /\ tArray = <<>>
  /\ tValue = <<>>
  /\ tOut = <<>>
  /\ tPc = "idle"

\* No CentraProvider is mounted.
CentraIdle ==
  /\ cProps = <<>>
  /\ headers = <<>>
  /\ cookie = <<>>
  /\ selection = <<>>
  /\ renderDue = FALSE
  /\ effectDue = FALSE
  /\ inFlight = <<>>
  /\ widget = <<>>
  /\ resetDone = <<>>
  /\ receipt = <<>>

\* No MediaLoader is mounted.
MediaIdle ==
  /\ mProps = <<>>
  /\ shouldRender = FALSE
  /\ revealState = FALSE
  /\ loaded = FALSE
  /\ mediaRef = 0
  /\ registered = {}
  /\ onLoadedLog = {}
  /\ boundsEntered = FALSE

Inv == 1..NumInv

NoCalls == [isRequestMethodPost |-> 0, getRawBody |-> 0, getHeader |-> 0]

Init ==
  /\ config \in Configs
  /\ pc = [i \in Inv |-> "idle"]
  /\ request = [i \in Inv |-> Undefined]
  /\ result = [i \in Inv |-> <<>>]
  /\ calls = [i \in Inv |-> NoCalls]
  /\ console = <<>>
  /\ ToggleIdle
  /\ CentraIdle
  /\ MediaIdle

\* RequestOf with the request kept in one variable of the factory's closure,
\* which holds the request of the latest call.
RequestOfLatestCall(i) ==
  request[CHOOSE j \in Inv : pc[j] # "idle" /\ \A k \in Inv : pc[k] # "idle" => k <= j]

\* The request an invocation works on after its await: its own parameter.
RequestOf(i) == request[i]

\* The call of the returned function, up to its `await getRawBody(request)`.
\* Invocations are numbered in the order of their calls.
Invoke(i, req) ==
  /\ pc[i] = "idle"
  /\ \A j \in 1..(i - 1) : pc[j] # "idle"
  /\ request' = [request EXCEPT ![i] = req]
  /\ IF MethodRejected(config.hasIsRequestMethodPost, req)
     THEN /\ pc' = [pc EXCEPT ![i] = "returned"]
          /\ result' = [result EXCEPT ![i] = InvalidRequestMethod]
          /\ calls' = [calls EXCEPT ![i].isRequestMethodPost = @ + 1]
     ELSE /\ pc' = [pc EXCEPT ![i] = "awaitRawBody"]
          /\ result' = result
          /\ calls' = [calls EXCEPT
                         ![i].isRequestMethodPost =
                           IF config.hasIsRequestMethodPost THEN @ + 1 ELSE @,
                         ![i].getRawBody = @ + 1]
  /\ UNCHANGED <<config, console, tvars, cvars, mvars>>

\* The rest of the function, run when the awaited raw body settles.
Resume(i) ==
  /\ pc[i] = "awaitRawBody"
  /\ LET o == AfterRawBody(config.secret, RequestOf(i))
     IN  /\ pc' = [pc EXCEPT ![i] = o.pc]
         /\ result' = [result EXCEPT ![i] = o.result]
         /\ calls' = [calls EXCEPT ![i].getHeader = @ + o.getHeader]
         /\ console' = console \o [k \in 1..Len(o.logged) |-> [by |-> i, line |-> o.logged[k]]]
  /\ UNCHANGED <<config, request, tvars, cvars, mvars>>

\* One invocation, over every request.
Next ==
  \/ pc[1] = "idle" /\ \E req \in Requests : Invoke(1, req)
  \/ Resume(1)

Spec == Init /\ [][Next]_vars

\* The requests of the overlapping invocations: with and without a body, a
\* payload that is JSON or not, unsigned or signed by the sender.
ConcRequests ==
  UNION {[isPost : BOOLEAN,
          signature : {Undefined,
                       Str(<<"t", "=", "7", ",", "v1", "=",
                             DigestFor(Key, Str(<<"7">>), PayloadIn(b))>>)},
          rawBody : {b}] :
           b \in {Undefined, Obj([payload |-> Str(<<>>)]), Obj([payload |-> Str(<<"1">>)]),
                  Obj([payload |-> Str(<<" ", "1">>)])}}

\* NumInv invocations of the one ingestor, each resumed whenever its raw
\* body settles.
NextConc ==
  \/ \E i \in Inv : pc[i] = "idle" /\ \E req \in ConcRequests : Invoke(i, req)
  \/ \E i \in Inv : Resume(i)

SpecConc == Init /\ [][NextConc]_vars

\* ------------------------------------------------------------------------
\* Vocabulary of the claims
\* ------------------------------------------------------------------------

Settled(i) == pc[i] \in {"returned", "thrown"}

PassesMethodCheck(i) == ~config.hasIsRequestMethodPost \/ request[i].isPost

CarriesStringPayload(value) ==
  /\ value.type = "object"
  /\ "payload" \in DOMAIN value.props
  /\ value.props.payload.type = "string"

\* An invocation that got past the method check with a body `{payload: string}`.
HasPayload(i) ==
  /\ Settled(i)
  /\ PassesMethodCheck(i)
  /\ CarriesStringPayload(request[i].rawBody)

PayloadOf(i) == request[i].rawBody.props.payload.chars

\* The hex HMAC-SHA256 of "<t>.payload=<url-encoded payload>", <t> being the
\* t parameter of the header, read as text.
ExpectedDigest(secret, header, payload) ==
  sign(secret,
       ToStringJS(Get(parseNamedParametersString(header), <<"t">>)) \o <<".payload=">>
         \o EncodeURIComponent(payload))

\* The v1 parameter of the header differs from the expected digest.
WrongV1(i) ==
  /\ request[i].signature.type = "string"
  /\ Get(parseNamedParametersString(request[i].signature.chars), <<"v1">>)
       # Str(<<ExpectedDigest(config.secret.chars, request[i].signature.chars, PayloadOf(i))>>)

\* ------------------------------------------------------------------------
\* C1
\* ------------------------------------------------------------------------

NoHeaderValue(i) == request[i].signature \in {Undefined, Null}

\* C2 as stated: with a secret, a request past the method check with a string
\* payload and no signature header gets exactly [{message: 'NoSignature'}].
C2_AsStated ==
  \A i \in Inv :
    (HasPayload(i) /\ config.secret.type = "string" /\ NoHeaderValue(i))
      => pc[i] = "returned" /\ result[i] = <<[message |-> "NoSignature"]>>

\* C2, amended: with a non-empty secret, a request past the method check with
\* a string payload for which getHeader gives no value gets exactly
\* [{message: 'No signature'}].
C2_NoSignature ==
  \A i \in Inv :
    (HasPayload(i) /\ Truthy(config.secret) /\ NoHeaderValue(i))
      => pc[i] = "returned" /\ result[i] = <<[message |-> "No signature"]>>

C2_Witness ==
  \E i \in Inv :
    /\ HasPayload(i)
    /\ Truthy(config.secret)
    /\ request[i].signature = Null
    /\ ~JSONParseThrows(PayloadOf(i))
    /\ calls[i].getHeader = 1
    /\ result[i] = <<[message |-> "No signature"]>>

\* ------------------------------------------------------------------------
\* C3
\* ------------------------------------------------------------------------

\* C3: without a secret, every request past the method check whose raw body
\* carries a string payload gets [undefined, JSON.parse(payload)], whatever
\* the signature header.
C3_AcceptedWithoutSecret ==
  \A i \in Inv :
    (HasPayload(i) /\ config.secret = Undefined)
      => pc[i] = "returned" /\ result[i] = <<Undefined, JSONParse(PayloadOf(i))>>

\* ------------------------------------------------------------------------
\* C4
\* ------------------------------------------------------------------------

FailsMethodCheck(i) ==
  pc[i] # "idle" /\ config.hasIsRequestMethodPost /\ ~request[i].isPost

\* C4 as stated: a request isRequestMethodPost refuses gets exactly
\* [{message: 'InvalidRequestMethod'}], getRawBody and getHeader not called.
C4_AsStated ==
  \A i \in Inv :
    FailsMethodCheck(i)
      => /\ pc[i] = "returned"
         /\ result[i] = <<[message |-> "InvalidRequestMethod"]>>
         /\ calls[i].getRawBody = 0
         /\ calls[i].getHeader = 0

\* C4, amended: a request the provided isRequestMethodPost refuses gets
\* exactly [{message: 'Invalid request method'}], and neither getRawBody nor
\* getHeader is called for it.
C4_InvalidRequestMethod ==
  \A i \in Inv :
    FailsMethodCheck(i)
      => /\ pc[i] = "returned"
         /\ result[i] = <<[message |-> "Invalid request method"]>>
         /\ calls[i].getRawBody = 0
         /\ calls[i].getHeader = 0

\* A refused request that carried an acceptable body and signature.
C4_Witness ==
  \E i \in Inv :
    /\ FailsMethodCheck(i)
    /\ CarriesStringPayload(request[i].rawBody)
    /\ Truthy(config.secret)
    /\ request[i].signature.type = "string"
    /\ ~WrongV1(i)
    /\ calls[i] = [isRequestMethodPost |-> 1, getRawBody |-> 0, getHeader |-> 0]
    /\ result[i] = <<[message |-> "Invalid request method"]>>

\* ------------------------------------------------------------------------
\* C5
\* ------------------------------------------------------------------------

\* getRawBody gave a value that is no object with a string payload.
BadBody(i) ==
  /\ Settled(i)
  /\ PassesMethodCheck(i)
  /\ request[i].rawBody.type # "reject"
  /\ ~CarriesStringPayload(request[i].rawBody)

\* C5 as stated: a raw body that is no object with a string payload gets
\* exactly [{message: 'InvalidRequestBody'}].
C5_AsStated ==
  \A i \in Inv :
    BadBody(i) => pc[i] = "returned" /\ result[i] = <<[message |-> "InvalidRequestBody"]>>

\* C5, amended: past the method check, a raw body that is no object with a
\* string payload gets exactly [{message: 'Invalid request body'}], with or
\* without a secret.
C5_InvalidRequestBody ==
  \A i \in Inv :
    BadBody(i) => pc[i] = "returned" /\ result[i] = <<[message |-> "Invalid request body"]>>

\* A payload that is no string was refused although no secret is configured.
C5_Witness ==
  \E i \in Inv :
    /\ BadBody(i)
    /\ config.secret = Undefined
    /\ request[i].rawBody = Obj([payload |-> Num(1)])
    /\ result[i] = <<[message |-> "Invalid request body"]>>

\* ------------------------------------------------------------------------
\* C6
\* ------------------------------------------------------------------------

\* The header `t=T,v1=<hex HMAC-SHA256(S, "T.payload=" + urlencode(P))>`.
SignedHeader(S, T, P) ==
  <<"t", "=", T, ",", "v1", "=", sign(S, <<T, ".payload=">> \o EncodeURIComponent(P))>>

\* C6: with secret S, the request with the header signed for T and P and
\* the body {payload: P} gets [undefined, JSON.parse(P)].
C6_RoundTrip ==
  \A i \in Inv :
    (/\ HasPayload(i)
     /\ config.secret.type = "string"
     /\ ~EncodeURIComponentThrows(PayloadOf(i))
     /\ request[i].signature = Str(SignedHeader(config.secret.chars, "7", PayloadOf(i))))
      => pc[i] = "returned" /\ result[i] = <<Undefined, JSONParse(PayloadOf(i))>>

\* ------------------------------------------------------------------------
\* C7
\* ------------------------------------------------------------------------

\* The error form: one error object with one of the given messages.
ErrorForm(r, messages) ==
  Len(r) = 1 /\ DOMAIN r[1] = {"message"} /\ r[1].message \in messages

\* The data form: the no-error marker, then the decoded payload.
DataForm(r) == Len(r) = 2 /\ r[1] = Undefined /\ r[2].type = "number"

\* C7 as stated: a returned result is either one error with a message among
\* InvalidRequestMethod, InvalidRequestBody, NoSignature, InvalidSignature,
\* or the pair of undefined and the decoded payload, never both.
C7_AsStated ==
  \A i \in Inv :
    pc[i] = "returned"
      => LET e == ErrorForm(result[i], {"InvalidRequestMethod", "InvalidRequestBody",
                                        "NoSignature", "InvalidSignature"})
         IN  (e \/ DataForm(result[i])) /\ ~(e /\ DataForm(result[i]))

\* C7, amended: a returned result is either one error with a message among
\* 'Invalid request method', 'Invalid request body', 'No signature', 'Invalid
\* signature', or the pair of undefined and the decoded payload, never both.
C7_TwoForms ==
  \A i \in Inv :
    pc[i] = "returned"
      => LET e == ErrorForm(result[i], {"Invalid request method", "Invalid request body",
                                        "No signature", "Invalid signature"})
         IN  /\ (e \/ DataForm(result[i])) /\ ~(e /\ DataForm(result[i]))
             /\ DataForm(result[i])
                  => HasPayload(i) /\ result[i][2] = JSONParse(PayloadOf(i))

\* A verified request returned the data form.
C7_Witness ==
  \E i \in Inv :
    /\ pc[i] = "returned"
    /\ Truthy(config.secret)
    /\ DataForm(result[i])
    /\ result[i][2] = Num(11)

\* ------------------------------------------------------------------------
\* C8
\* ------------------------------------------------------------------------

\* C8: no invocation ends with a thrown exception or a rejected promise.
C8_NeverThrows == \A i \in Inv : pc[i] # "thrown"

\* ------------------------------------------------------------------------
\* C9
\* ------------------------------------------------------------------------

\* What one invocation gives when it runs alone.
RunAlone(cfg, req) ==
  IF MethodRejected(cfg.hasIsRequestMethodPost, req)
  THEN Returned(InvalidRequestMethod, 0, <<>>)
  ELSE AfterRawBody(cfg.secret, req)

InsertAt(seq, pos, e) == SubSeq(seq, 1, pos) \o <<e>> \o SubSeq(seq, pos + 1, Len(seq))

\* The header with one of `pairs` added before, between or after its entries.
WithPair(header, pairs) ==
  LET entries == Split(header, ",")
  IN  {Join(InsertAt(entries, pos, e)) : pos \in 0..Len(entries), e \in pairs}

UnknownPairs == {<<"x", "=", "7">>, <<"y", "=", "v1", "=">>}

KeylessPairs == {<<>>, <<"=", "7">>}

\* The request of invocation i gives the same with `header` as its signature.
SameOutcome(i, header) ==
  LET o == RunAlone(config, [request[i] EXCEPT !.signature = Str(header)])
  IN  o.pc = pc[i] /\ o.result = result[i]

\* Pairs without a key leave the parsed parameters as they are.
KeylessDropped(header) ==
  LET parameters == parseNamedParametersString(header)
  IN  /\ <<>> \notin DOMAIN parameters
      /\ \A h \in WithPair(header, KeylessPairs) : parseNamedParametersString(h) = parameters

\* C9 as stated: an unknown pair added to the signature header at any
\* position leaves the outcome of the request as it is, and a pair without a
\* key is dropped from the parsed parameters.
C9_AsStated ==
  \A i \in Inv :
    (Settled(i) /\ request[i].signature.type = "string")
      => /\ \A h \in WithPair(request[i].signature.chars, UnknownPairs) : SameOutcome(i, h)
         /\ KeylessDropped(request[i].signature.chars)

\* C9, amended: an unknown pair added to a non-empty signature header at any
\* position leaves the outcome of the request as it is, and a pair without a
\* key is dropped from the parsed parameters of any header.
C9_ExtraPairs ==
  \A i \in Inv :
    (Settled(i) /\ request[i].signature.type = "string")
      => /\ request[i].signature.chars # <<>>
              => \A h \in WithPair(request[i].signature.chars, UnknownPairs) :
                   SameOutcome(i, h)
         /\ KeylessDropped(request[i].signature.chars)

\* A header that starts with an unknown pair verified.
C9_Witness ==
  \E i \in Inv :
    /\ HasPayload(i)
    /\ Truthy(config.secret)
    /\ request[i].signature.type = "string"
    /\ Split(request[i].signature.chars, ",")[1] = <<"x", "=", "7">>
    /\ DOMAIN parseNamedParametersString(request[i].signature.chars) = {<<"x">>, <<"v1">>}
    /\ DataForm(result[i])

\* ------------------------------------------------------------------------
\* C10
\* ------------------------------------------------------------------------

\* The lines invocation i wrote with console.error.
LoggedBy(i) ==
  LET mine == SelectSeq(console, LAMBDA l : l.by = i)
  IN  [k \in 1..Len(mine) |-> mine[k].line]

\* C10: however the invocations interleave around their await, each settles
\* as it would when run alone on its request.
C10_NoInterference ==
  \A i \in Inv :
    Settled(i)
      => LET alone == RunAlone(config, request[i])
         IN  /\ pc[i] = alone.pc
             /\ result[i] = alone.result
             /\ LoggedBy(i) = alone.logged

\* The second call settled while the first, with another request, still
\* awaits its raw body.
C10_Witness ==
  /\ pc[1] = "awaitRawBody"
  /\ pc[2] = "returned"
  /\ DataForm(result[2])
  /\ request[1].rawBody # request[2].rawBody
  /\ request[1].signature # request[2].signature

\* ------------------------------------------------------------------------
\* toggle (src/packages/utils/src/toggle.ts)
\* ------------------------------------------------------------------------

\* Longest array given to toggle.
MaxArrayLen == 3

Bool(b) == [type |-> "boolean", bool |-> b]

NaN == [type |-> "NaN"]

\* `a !== b` is false only for equal values, and NaN is not equal to itself.
StrictNotEquals(a, b) == a # b \/ a = NaN

\* SameValueZero, the comparison of Array.prototype.includes: NaN is the
\* same as NaN.
SameValueZero(a, b) == a = b

\* array.includes(value)
Includes(array, value) == \E k \in 1..Len(array) : SameValueZero(array[k], value)

\* array.filter((item) => item !== value)
FilterNotValue(array, value) == SelectSeq(array, LAMBDA item : StrictNotEquals(item, value))

toggle(array, value) ==
  IF Includes(array, value) THEN FilterNotValue(array, value) ELSE array \o <<value>>

ToggleValues == {Num(1), Str(<<"foo">>), Bool(TRUE), NaN}

ToggleArrays == UNION {[1..n -> ToggleValues] : n \in 0..MaxArrayLen}

\* The variables of the webhook ingestor stay at their first values.
IngestorIdle ==
  /\ config = [secret |-> Undefined, hasIsRequestMethodPost |-> FALSE]
  /\ pc = [i \in Inv |-> "idle"]
  /\ request = [i \in Inv |-> Undefined]
  /\ result = [i \in Inv |-> <<>>]
  /\ calls = [i \in Inv |-> NoCalls]
  /\ console = <<>>

ToggleInit ==
  /\ IngestorIdle
  /\ CentraIdle
  /\ MediaIdle
  /\ tArray \in ToggleArrays
  /\ tValue \in ToggleValues
  /\ tOut = <<>>
  /\ tPc = "call"

\* One call of toggle; the array it was given stays as it is.
ToggleCall ==
  /\ tPc = "call"
  /\ tOut' = toggle(tArray, tValue)
  /\ tPc' = "done"
  /\ UNCHANGED <<tArray, tValue, ivars, cvars, mvars>>

\* The caller toggles the same value in the returned array.
ToggleAgain ==
  /\ tPc = "done"
  /\ Len(tOut) <= MaxArrayLen
  /\ tArray' = tOut
  /\ tOut' = <<>>
  /\ tPc' = "call"
  /\ UNCHANGED <<tValue, ivars, cvars, mvars>>

ToggleNext == ToggleCall \/ ToggleAgain

SpecToggle == ToggleInit /\ [][ToggleNext]_vars

\* The elements of array that are not value, in their order.
Without(array, value) == SelectSeq(array, LAMBDA item : ~SameValueZero(item, value))

\* C11: toggle returns an array that contains value exactly when the array it
\* was given does not: an absent value is appended after the elements, a
\* present one loses every occurrence while the other elements keep their
\* order.
C11_Toggle ==
  tPc = "done" =>
    /\ Includes(tOut, tValue) <=> ~Includes(tArray, tValue)
    /\ ~Includes(tArray, tValue) => tOut = tArray \o <<tValue>>
    /\ Includes(tArray, tValue) => tOut = Without(tArray, tValue)

\* C11 for the values that are equal to themselves under `!==`.
C11_ToggleButNaN == tValue # NaN => C11_Toggle

\* ------------------------------------------------------------------------
\* CentraProvider and useCentraReceipt (src/unnamed/part_000)
\* ------------------------------------------------------------------------

\* Most API calls that have not settled.
MaxInFlight == 2

\* Most suspend() calls the checkout widget receives.
MaxHandlerCalls == 2

Tokens == {Str(<<"t0">>), Str(<<"t1">>)}

\* The headers of a new ApiClient, as far as the token is concerned.
NoHeaders == ("Accept" :> Undefined) @@ ("api-token" :> Undefined)

\* `application/json; api-token=${v}`
AcceptWithToken(v) == Str(<<"application/json; api-token=">> \o ToStringJS(v))

setTokenHeader(h, useAcceptHeader, token) ==
  IF useAcceptHeader
  THEN [h EXCEPT !["Accept"] = AcceptWithToken(token)]
  ELSE [h EXCEPT !["api-token"] = token]

\* What resetSelection does to the headers.
ClearTokenHeader(h, useAcceptHeader) ==
  IF useAcceptHeader
  THEN [h EXCEPT !["Accept"] = Str(<<"application/json">>)]
  ELSE [h EXCEPT !["api-token"] = Undefined]

ProviderProps ==
  [initialToken : Tokens \cup {Undefined}, useAcceptHeader : BOOLEAN,
   disableInit : BOOLEAN, stableOptions : BOOLEAN]

\* What a request resolves with: whether it carries a selection, and its token.
Responses == [selection : BOOLEAN, token : Tokens \cup {Undefined}]

CentraInit ==
  /\ IngestorIdle
  /\ ToggleIdle
  /\ MediaIdle
  /\ cProps \in ProviderProps
  /\ headers = NoHeaders
  /\ cookie \in Tokens \cup {Undefined}
  /\ selection = [selection |-> TRUE, token |-> cProps.initialToken]
  /\ renderDue = TRUE
  /\ effectDue = TRUE
  /\ inFlight = <<>>
  /\ widget \in [present : BOOLEAN, suspend : {0}, resume : {0}]
  /\ resetDone = Undefined
  /\ receipt = Undefined

RemoveAt(seq, k) == SubSeq(seq, 1, k - 1) \o SubSeq(seq, k + 1, Len(seq))

\* The body of the component: every render gives the shared client the token
\* of initialSelection. A render ends with the effects whose dependencies
\* changed scheduled; init changes with tokenCookieOptions, which is a new
\* object in every render unless the caller passes a stable one.
Render ==
  /\ renderDue
  /\ headers' = IF Truthy(cProps.initialToken)
                THEN setTokenHeader(headers, cProps.useAcceptHeader, cProps.initialToken)
                ELSE headers
  /\ renderDue' = FALSE
  /\ effectDue' = (effectDue \/ ~cProps.stableOptions)
  /\ UNCHANGED <<cProps, cookie, selection, inFlight, widget, resetDone, receipt>>
  /\ UNCHANGED <<ivars, tvars, mvars>>

\* init up to its await: the token of the cookie goes to the header.
InitHeaders(h) ==
  IF Truthy(cookie) THEN setTokenHeader(h, cProps.useAcceptHeader, cookie) ELSE h

\* init from its await on, or from its start when it was given selectionData.
AfterResponse(h, apiToken, response) ==
  IF response.selection
  THEN [selection |-> response,
        renderDue |-> TRUE,
        headers |-> IF Truthy(response.token) /\ response.token # apiToken
                    THEN setTokenHeader(h, cProps.useAcceptHeader, response.token)
                    ELSE h,
        cookie |-> IF Truthy(response.token) /\ response.token # apiToken
                   THEN response.token
                   ELSE cookie]
  ELSE [selection |-> selection, renderDue |-> renderDue, headers |-> h, cookie |-> cookie]

\* The effect that calls init unless disableInit.
RunEffect ==
  /\ ~renderDue
  /\ effectDue
  /\ effectDue' = FALSE
  /\ IF cProps.disableInit
     THEN UNCHANGED <<headers, inFlight, resetDone>>
     ELSE /\ Len(inFlight) < MaxInFlight
          /\ headers' = InitHeaders(headers)
          /\ inFlight' = Append(inFlight, [kind |-> "init", apiToken |-> cookie, byReset |-> FALSE])
          /\ resetDone' = Undefined
  /\ UNCHANGED <<cProps, cookie, selection, renderDue, widget, receipt>>
  /\ UNCHANGED <<ivars, tvars, mvars>>

\* init(selectionData) called through the handlers context.
CallInit(selectionData) ==
  /\ ~renderDue
  /\ resetDone' = Undefined
  /\ IF selectionData = Undefined
     THEN /\ Len(inFlight) < MaxInFlight
          /\ headers' = InitHeaders(headers)
          /\ inFlight' = Append(inFlight, [kind |-> "init", apiToken |-> cookie, byReset |-> FALSE])
          /\ UNCHANGED <<cookie, selection, renderDue>>
     ELSE LET after == AfterResponse(InitHeaders(headers), cookie, selectionData) IN
          /\ headers' = after.headers
          /\ cookie' = after.cookie
          /\ selection' = after.selection
          /\ renderDue' = after.renderDue
          /\ UNCHANGED inFlight
  /\ UNCHANGED <<cProps, effectDue, widget, receipt>>
  /\ UNCHANGED <<ivars, tvars, mvars>>

resetSelection ==
  /\ ~renderDue
  /\ Len(inFlight) < MaxInFlight
  /\ headers' = ClearTokenHeader(headers, cProps.useAcceptHeader)
  /\ cookie' = Undefined
  /\ inFlight' = Append(inFlight, [kind |-> "init", apiToken |-> Undefined, byReset |-> TRUE])
  /\ resetDone' = Undefined
  /\ UNCHANGED <<cProps, selection, renderDue, effectDue, widget, receipt>>
  /\ UNCHANGED <<ivars, tvars, mvars>>

\* The request of an init resolves.
InitResolves(k, response) ==
  /\ inFlight[k].kind = "init"
  /\ LET after == AfterResponse(headers, inFlight[k].apiToken, response) IN
     /\ headers' = after.headers
     /\ cookie' = after.cookie
     /\ selection' = after.selection
     /\ renderDue' = after.renderDue
  /\ resetDone' = IF inFlight[k].byReset /\ response.selection /\ Truthy(response.token)
                  THEN response.token
                  ELSE Undefined
  /\ inFlight' = RemoveAt(inFlight, k)
  /\ UNCHANGED <<cProps, effectDue, widget, receipt>>
  /\ UNCHANGED <<ivars, tvars, mvars>>

\* The request of an init rejects: init rejects at its await.
InitRejects(k) ==
  /\ inFlight[k].kind = "init"
  /\ inFlight' = RemoveAt(inFlight, k)
  /\ resetDone' = Undefined
  /\ UNCHANGED <<cProps, headers, cookie, selection, renderDue, effectDue, widget, receipt>>
  /\ UNCHANGED <<ivars, tvars, mvars>>

\* window.CentraCheckout?.suspend()
SuspendWidget(w) == IF w.present THEN [w EXCEPT !.suspend = @ + 1] ELSE w

\* window.CentraCheckout?.resume()
ResumeWidget(w) == IF w.present THEN [w EXCEPT !.resume = @ + 1] ELSE w

\* A handler calls selectionApiCall: the widget is suspended, the call awaited.
selectionApiCall ==
  /\ ~renderDue
  /\ Len(inFlight) < MaxInFlight
  /\ widget.suspend < MaxHandlerCalls
  /\ widget' = SuspendWidget(widget)
  /\ inFlight' = Append(inFlight, [kind |-> "selection"])
  /\ UNCHANGED <<cProps, headers, cookie, selection, renderDue, effectDue, resetDone, receipt>>
  /\ UNCHANGED <<ivars, tvars, mvars>>

\* The awaited call resolves: selectionApiCall goes on after its await.
SelectionResolves(k, response) ==
  /\ inFlight[k].kind = "selection"
  /\ inFlight' = RemoveAt(inFlight, k)
  /\ IF response.selection
     THEN selection' = response /\ renderDue' = TRUE
     ELSE UNCHANGED <<selection, renderDue>>
  /\ widget' = ResumeWidget(widget)
  /\ UNCHANGED <<cProps, headers, cookie, effectDue, resetDone, receipt>>
  /\ UNCHANGED <<ivars, tvars, mvars>>

\* The awaited call rejects: the await throws and selectionApiCall ends there.
SelectionRejects(k) ==
  /\ inFlight[k].kind = "selection"
  /\ inFlight' = RemoveAt(inFlight, k)
  /\ UNCHANGED <<cProps, headers, cookie, selection, renderDue, effectDue, widget,
                 resetDone, receipt>>
  /\ UNCHANGED <<ivars, tvars, mvars>>

\* new ApiClient(apiUrl): an object without a string form of its own.
TempApiClient == Obj(<<>>)

\* The headers useCentraReceipt gives its temporary client.
ReceiptHeaders(token, useAcceptHeader) ==
  IF useAcceptHeader
  THEN [NoHeaders EXCEPT !["Accept"] = AcceptWithToken(TempApiClient)]
  ELSE [NoHeaders EXCEPT !["api-token"] = Str(<<"api-token=">> \o ToStringJS(TempApiClient))]

\* The effect of useCentraReceipt(token, useAcceptHeader): the request is made.
useCentraReceipt(token, useAcceptHeader) ==
  /\ receipt = Undefined
  /\ receipt' = [token |-> token, useAcceptHeader |-> useAcceptHeader,
                 headers |-> ReceiptHeaders(token, useAcceptHeader)]
  /\ UNCHANGED <<cProps, headers, cookie, selection, renderDue, effectDue, inFlight, widget,
                 resetDone>>
  /\ UNCHANGED <<ivars, tvars, mvars>>

CentraNext ==
  \/ Render
  \/ RunEffect
  \/ \E selectionData \in Responses \cup {Undefined} : CallInit(selectionData)
  \/ resetSelection
  \/ \E k \in 1..Len(inFlight) : \E response \in Responses : InitResolves(k, response)
  \/ \E k \in 1..Len(inFlight) : InitRejects(k)
  \/ selectionApiCall
  \/ \E k \in 1..Len(inFlight) : \E response \in Responses : SelectionResolves(k, response)
  \/ \E k \in 1..Len(inFlight) : SelectionRejects(k)
  \/ \E token \in Tokens : \E useAcceptHeader \in BOOLEAN : useCentraReceipt(token, useAcceptHeader)

SpecCentra == CentraInit /\ [][CentraNext]_vars

\* The token header of h holds token.
HeaderCarries(h, useAcceptHeader, token) ==
  IF useAcceptHeader
  THEN h["Accept"] = AcceptWithToken(token)
  ELSE h["api-token"] = token

\* C12: once the init of resetSelection has ended with a response that carries
\* a selection and a token, and the provider has rendered again and run its
\* effects, the token header of the API client and the token cookie both hold
\* the token of that response.
C12_FreshToken ==
  (Truthy(resetDone) /\ ~renderDue /\ ~effectDue) =>
    /\ HeaderCarries(headers, cProps.useAcceptHeader, resetDone)
    /\ cookie = resetDone

\* C12 for a provider whose initialSelection carries no token.
C12_FreshTokenNoInitial == ~Truthy(cProps.initialToken) => C12_FreshToken

\* C12 for the cookie alone.
C12_FreshCookie == (Truthy(resetDone) /\ ~renderDue /\ ~effectDue) => cookie = resetDone

\* C13: the temporary client of useCentraReceipt(token) makes its request with
\* a token header that holds token.
C13_ReceiptToken ==
  receipt # Undefined => HeaderCarries(receipt.headers, receipt.useAcceptHeader, receipt.token)

\* C18: when no call routed through selectionApiCall is in flight, the widget
\* has been resumed as often as it has been suspended.
C18_Resumed ==
  (\A k \in 1..Len(inFlight) : inFlight[k].kind # "selection") =>
    widget.resume = widget.suspend

\* C18 as long as no awaited call has rejected: every suspend() is followed by
\* a resume() when the call resolves.
C18_ResumedOrInFlight ==
  widget.suspend >= widget.resume

\* ------------------------------------------------------------------------
\* C14
\* ------------------------------------------------------------------------

\* The header is a non-empty string.
HasHeader(i) == request[i].signature.type = "string" /\ request[i].signature.chars # <<>>

\* The header is missing or empty.
LacksHeader(i) == NoHeaderValue(i) \/ request[i].signature = Str(<<>>)

\* C14: the checks run in the order method check, body read and validation,
\* header presence, signature comparison, JSON decode, and the first that
\* fails decides the result whatever the later ones would find: a refused
\* method gives the method error without a body read, a bad body the body
\* error without a header read, a missing header the missing-signature error
\* and a wrong v1 the mismatch error even for a payload that is no JSON text;
\* a data result means that no check failed. getHeader is called only in a
\* settled invocation past the method check with a validated body and a
\* secret, and no adapter function is called twice.
C14_CheckOrder ==
  \A i \in Inv :
    /\ calls[i].isRequestMethodPost <= 1
    /\ calls[i].getRawBody <= 1
    /\ calls[i].getHeader <= 1
    /\ calls[i].getRawBody >= 1 => PassesMethodCheck(i)
    /\ calls[i].getHeader >= 1
         => /\ HasPayload(i)
            /\ calls[i].getRawBody = 1
            /\ Truthy(config.secret)
    /\ FailsMethodCheck(i)
         => /\ pc[i] = "returned" /\ result[i] = InvalidRequestMethod
            /\ calls[i].getRawBody = 0 /\ calls[i].getHeader = 0
    /\ BadBody(i)
         => /\ pc[i] = "returned" /\ result[i] = InvalidRequestBody
            /\ calls[i].getHeader = 0
    /\ (HasPayload(i) /\ Truthy(config.secret) /\ LacksHeader(i))
         => pc[i] = "returned" /\ result[i] = NoSignature
    /\ (HasPayload(i) /\ Truthy(config.secret) /\ HasHeader(i)
          /\ ~EncodeURIComponentThrows(PayloadOf(i)) /\ WrongV1(i))
         => pc[i] = "returned" /\ result[i] = InvalidSignature
    /\ (pc[i] = "returned" /\ Len(result[i]) = 2)
         => /\ HasPayload(i)
            /\ ~JSONParseThrows(PayloadOf(i))
            /\ Truthy(config.secret) => (HasHeader(i) /\ ~WrongV1(i))

\* Several checks would fail at once and the earliest one is reported: a bad
\* body with no header under a secret, reported as the body error.
C14_Witness ==
  /\ BadBody(1)
  /\ Truthy(config.secret)
  /\ LacksHeader(1)
  /\ result[1] = InvalidRequestBody
  /\ calls[1] = [isRequestMethodPost |-> 1, getRawBody |-> 1, getHeader |-> 0]

\* A wrong v1 with a payload that is no JSON text, reported as the mismatch.
C14_WitnessMismatchBeforeDecode ==
  /\ HasPayload(1)
  /\ Truthy(config.secret)
  /\ HasHeader(1)
  /\ WrongV1(1)
  /\ JSONParseThrows(PayloadOf(1))
  /\ result[1] = InvalidSignature

\* ------------------------------------------------------------------------
\* C15
\* ------------------------------------------------------------------------

KeyOf(pair) == Split(pair, "=")[1]

\* The whole text after the first "=" of a pair, undefined without a "=".
WholeValue(pair) ==
  IF \A k \in 1..Len(pair) : pair[k] # "="
  THEN Undefined
  ELSE Str(SubSeq(pair, Len(KeyOf(pair)) + 2, Len(pair)))

\* C15: every parameter parsed from the signature header of a verified
\* request holds the whole text after the first "=" of the last pair with its
\* key.
C15_FirstEqualsOnly ==
  \A i \in Inv :
    (HasPayload(i) /\ Truthy(config.secret) /\ HasHeader(i))
      => LET pairs == Split(request[i].signature.chars, ",")
             parameters == parseNamedParametersString(request[i].signature.chars)
         IN  \A k \in 1..Len(pairs) :
               (/\ KeyOf(pairs[k]) # <<>>
                /\ \A l \in (k + 1)..Len(pairs) : KeyOf(pairs[l]) # KeyOf(pairs[k]))
                 => Get(parameters, KeyOf(pairs[k])) = WholeValue(pairs[k])

\* C15 for the pairs with at most one "=".
C15_UpToSecondEquals ==
  \A i \in Inv :
    (HasPayload(i) /\ Truthy(config.secret) /\ HasHeader(i))
      => LET pairs == Split(request[i].signature.chars, ",")
             parameters == parseNamedParametersString(request[i].signature.chars)
         IN  \A k \in 1..Len(pairs) :
               (/\ KeyOf(pairs[k]) # <<>>
                /\ Len(Split(pairs[k], "=")) <= 2
                /\ \A l \in (k + 1)..Len(pairs) : KeyOf(pairs[l]) # KeyOf(pairs[k]))
                 => Get(parameters, KeyOf(pairs[k])) = WholeValue(pairs[k])

\* ------------------------------------------------------------------------
\* C16
\* ------------------------------------------------------------------------

\* C16: an invocation that ends with the signature-mismatch error has written
\* exactly one line with console.error; an invocation in any other state or
\* with any other outcome has written none.
C16_OneLogLine ==
  \A i \in Inv :
    IF pc[i] = "returned" /\ result[i] = InvalidSignature
    THEN Len(LoggedBy(i)) = 1
    ELSE LoggedBy(i) = <<>>

C16_Witness ==
  /\ pc[1] = "returned"
  /\ result[1] = InvalidSignature
  /\ Len(console) = 1
  /\ console[1].by = 1

\* ------------------------------------------------------------------------
\* C17
\* ------------------------------------------------------------------------

\* C17: with the empty string as secret, every request past the method check
\* with a string payload is accepted, its decoded payload returned, and
\* getHeader is not called.
C17_EmptySecretAccepts ==
  \A i \in Inv :
    (HasPayload(i) /\ config.secret = Str(<<>>))
      => /\ pc[i] = "returned"
         /\ DataForm(result[i])
         /\ calls[i].getHeader = 0

\* The empty secret gives every request the outcome of no secret, getHeader
\* is not called, and only a non-empty secret gives a signature error.
C17_LikeAbsent ==
  \A i \in Inv :
    Settled(i)
      => /\ config.secret = Str(<<>>)
              => LET absent == RunAlone([config EXCEPT !.secret = Undefined], request[i])
                 IN  /\ pc[i] = absent.pc
                     /\ result[i] = absent.result
                     /\ LoggedBy(i) = absent.logged
                     /\ calls[i].getHeader = 0
         /\ result[i] \in {NoSignature, InvalidSignature}
              => config.secret.type = "string" /\ config.secret.chars # <<>>

\* ------------------------------------------------------------------------
\* MediaLoader (src/packages/oui/src/MediaLoader/MediaLoader.js)
\* ------------------------------------------------------------------------

\* The media nodes React mounts as the child, one at a time.
NumNodes == 2

Nodes == 1..NumNodes

\* mediaRef.current without a node.
NoNode == 0

\* The props: lazy, `in` (not given, true or false), rootMargin given or not.
MediaProps == [lazy : BOOLEAN, in : {"undefined", "true", "false"}, rootMargin : BOOLEAN]

\* useControlled: the `in` prop when it is given, the state otherwise.
shouldReveal == IF mProps.in # "undefined" THEN mProps.in = "true" ELSE revealState

inState == loaded /\ shouldReveal

MediaInit ==
  /\ IngestorIdle
  /\ ToggleIdle
  /\ CentraIdle
  /\ mProps \in MediaProps
  /\ shouldRender = ~mProps.lazy
  /\ revealState = ~mProps.rootMargin
  /\ loaded = FALSE
  /\ mediaRef = NoNode
  /\ registered = {}
  /\ onLoadedLog = {}
  /\ boundsEntered = FALSE

\* The InView of the render bounds, rendered while !shouldRender, reports.
handleRenderIntersectionChange(inView) ==
  /\ ~shouldRender
  /\ shouldRender' = inView
  /\ boundsEntered' = inView
  /\ UNCHANGED <<mProps, revealState, loaded, mediaRef, registered, onLoadedLog>>
  /\ UNCHANGED <<ivars, tvars, cvars>>

\* The InView of the reveal bounds, rendered while !shouldReveal, reports;
\* setShouldReveal changes the state only when `in` is not given.
handleRevealIntersectionChange(inView) ==
  /\ ~shouldReveal
  /\ revealState' = IF inView /\ mProps.in = "undefined" THEN TRUE ELSE revealState
  /\ UNCHANGED <<mProps, shouldRender, loaded, mediaRef, registered, onLoadedLog,
                 boundsEntered>>
  /\ UNCHANGED <<ivars, tvars, cvars>>

\* React gives the ref a node when the child mounts (the children are
\* rendered only with shouldRender) and null when it unmounts.
handleMediaRef(node) ==
  /\ IF node = NoNode THEN mediaRef # NoNode ELSE shouldRender /\ mediaRef = NoNode
  /\ mediaRef' = node
  /\ registered' = IF node # NoNode THEN registered \cup {node} ELSE registered
  /\ UNCHANGED <<mProps, shouldRender, revealState, loaded, onLoadedLog, boundsEntered>>
  /\ UNCHANGED <<ivars, tvars, cvars>>

\* handleLoaded: nothing happens without a node in mediaRef.current.
handleLoaded(instance) ==
  IF mediaRef # NoNode
  THEN /\ loaded' = TRUE
       /\ onLoadedLog' = onLoadedLog \cup {[instance |-> instance, current |-> mediaRef]}
  ELSE UNCHANGED <<loaded, onLoadedLog>>

\* mediaLoaded reports that a node it was given has loaded.
MediaLoads(node) ==
  /\ node \in registered
  /\ registered' = registered \ {node}
  /\ handleLoaded(node)
  /\ UNCHANGED <<mProps, shouldRender, revealState, mediaRef, boundsEntered>>
  /\ UNCHANGED <<ivars, tvars, cvars>>

\* The parent changes the `in` prop it controls.
SetIn(value) ==
  /\ mProps.in # "undefined"
  /\ mProps.in # value
  /\ mProps' = [mProps EXCEPT !.in = value]
  /\ UNCHANGED <<shouldRender, revealState, loaded, mediaRef, registered, onLoadedLog,
                 boundsEntered>>
  /\ UNCHANGED <<ivars, tvars, cvars>>

MediaNext ==
  \/ \E inView \in BOOLEAN : handleRenderIntersectionChange(inView)
  \/ \E inView \in BOOLEAN : handleRevealIntersectionChange(inView)
  \/ \E node \in Nodes \cup {NoNode} : handleMediaRef(node)
  \/ \E node \in Nodes : MediaLoads(node)
  \/ \E value \in {"true", "false"} : SetIn(value)

SpecMedia == MediaInit /\ [][MediaNext]_vars

\* ------------------------------------------------------------------------
\* C19
\* ------------------------------------------------------------------------

\* C19: the media is transitioned in only when reveal is requested and a
\* media node has reported loaded while it was the mounted one; onLoaded is
\* called only for a node that is mounted at the call; with lazy the children
\* are rendered only after the render bounds came into view.
C19_MediaLoader ==
  /\ inState => shouldReveal /\ \E e \in onLoadedLog : e.instance = e.current
  /\ \A e \in onLoadedLog : e.instance = e.current
  /\ mediaRef # NoNode => shouldRender
  /\ (mProps.lazy /\ shouldRender) => boundsEntered

\* C19 with "mounted" read as "some media node is mounted": loaded is set and
\* onLoaded called only while mediaRef.current holds a node.
C19_SomeNodeMounted ==
  /\ inState => shouldReveal /\ onLoadedLog # {}
  /\ loaded => onLoadedLog # {}
  /\ \A e \in onLoadedLog : e.current # NoNode
  /\ mediaRef # NoNode => shouldRender
  /\ (mProps.lazy /\ shouldRender) => boundsEntered

\* Neither shouldRender nor loaded goes back to false.
C19_NeverBack == [][(shouldRender => shouldRender') /\ (loaded => loaded')]_vars

====
